---- MODULE Spec2Model ----
(***************************************************************************)
(* Model of wilderness-dom-node (src/src/index.js, the revision that       *)
(* starts at line 355): the FrameShape reader `frameShape`, the writer     *)
(* `node` and the reconciler `updateNode`, over a small DOM heap; and the   *)
(* attribute differ `diff` of the earlier revision (lines 103-114).        *)
(*                                                                         *)
(* The DOM is modelled by what the code uses of it: an element has a       *)
(* nodeName, an attribute list and childNodes; `el.attributes` is a        *)
(* NamedNodeMap, whose indexed and named items are Attr objects (the way   *)
(* nodeData reads them, attr.name / attr.value), never strings.            *)
(***************************************************************************)
EXTENDS Integers, Sequences, FiniteSets, TLC

VARIABLES
  enumerableNames, \* host: does for-in over a NamedNodeMap also yield the attribute names?
  dom,             \* the live nodes: id -> [nodeName, attributes, childNodes]
  pre,             \* dom as it was when the last call started
  callEl,          \* first argument of the last call
  callFs,          \* second argument of the last call
  result,          \* "none", "returned" or "threw"
  error,           \* message of the TypeError thrown by the last call
  returned,        \* value returned by the last call
  changes,         \* the `changes` array the last updateNode call applied
  calls,           \* number of calls made so far
  shape,           \* the FrameShape the last frameShape call returned
  built            \* the node the last node call returned

vars == <<enumerableNames, dom, pre, callEl, callFs, result, error, returned, changes, calls,
          shape, built>>

(***************************************************************************)
(* Bounds                                                                  *)
(***************************************************************************)
MaxCalls == 2       \* calls of updateNode in one run
MaxKids == 2        \* childFrameShapes of the frame shape passed to a call
MaxNestedKids == 1  \* childFrameShapes of a group frame shape that is itself a child
MaxExtra == 2       \* attributes a node read by frameShape has besides its core attributes

(***************************************************************************)
(* JavaScript values                                                       *)
(***************************************************************************)
Min(a, b) == IF a < b THEN a ELSE b

Undefined == [typeof |-> "undefined"]
Null == [typeof |-> "null"]
JSString(s) == [typeof |-> "string", v |-> s]
Attr(name, value) == [typeof |-> "object", name |-> name, value |-> value]
NoError == "none"
EmptyMap == [k \in {} |-> ""]

(***************************************************************************)
(* Type registry                                                           *)
(***************************************************************************)
attributeBlacklist == {"data-jsx-ext", "data-reactid"}

nodeCoreProps ==
  [ circle   |-> {"cx", "cy", "r"},
    ellipse  |-> {"cx", "cy", "rx", "ry"},
    g        |-> {},
    line     |-> {"x1", "x2", "y1", "y2"},
    path     |-> {"d"},
    polygon  |-> {"points"},
    polyline |-> {"points"},
    rect     |-> {"height", "rx", "ry", "width", "x", "y"} ]

nodeTypes == DOMAIN nodeCoreProps

coreProps(type) == IF type \in DOMAIN nodeCoreProps THEN nodeCoreProps[type] ELSE {}

validNodeType(nodeName) == nodeName \in nodeTypes

(***************************************************************************)
(* Points codec (svg-points): the path string of a point sequence.         *)
(***************************************************************************)
NoCurve == [type |-> "none"]
Pt(x, y, m) == [x |-> x, y |-> y, moveTo |-> m, curve |-> NoCurve]
ArcTo(x, y, rx, ry) ==
  [x |-> x, y |-> y, moveTo |-> FALSE, curve |-> [type |-> "arc", rx |-> rx, ry |-> ry, sweepFlag |-> 1]]

\* the point that starts the subpath of points[i]
RECURSIVE firstPoint(_, _)
firstPoint(points, i) ==
  IF i = 1 \/ points[i].moveTo THEN points[i] ELSE firstPoint(points, i - 1)

RECURSIVE toPathFrom(_, _)
toPathFrom(points, i) ==
  IF i > Len(points) THEN ""
  ELSE LET p == points[i]
           isLastPoint == i = Len(points) \/ points[i + 1].moveTo
           closes == /\ isLastPoint
                     /\ p.x = firstPoint(points, i).x
                     /\ p.y = firstPoint(points, i).y
           seg == IF i = 1 \/ p.moveTo THEN "M" \o ToString(p.x) \o "," \o ToString(p.y)
                  ELSE IF p.curve.type = "arc"
                    THEN "A" \o ToString(p.curve.rx) \o "," \o ToString(p.curve.ry) \o ",0,0,"
                           \o ToString(p.curve.sweepFlag) \o "," \o ToString(p.x) \o ","
                           \o ToString(p.y) \o (IF closes THEN "Z" ELSE "")
                  ELSE IF closes THEN "Z"
                  ELSE IF p.x /= points[i - 1].x /\ p.y /= points[i - 1].y
                    THEN "L" \o ToString(p.x) \o "," \o ToString(p.y)
                  ELSE IF p.x /= points[i - 1].x THEN "H" \o ToString(p.x)
                  ELSE IF p.y /= points[i - 1].y THEN "V" \o ToString(p.y)
                  ELSE ""
       IN seg \o toPathFrom(points, i + 1)

toPath(points) == toPathFrom(points, 1)

P0 == <<Pt(0, 0, TRUE), Pt(10, 0, FALSE)>>
P1 == <<Pt(10, 10, TRUE), Pt(20, 10, FALSE)>>

(***************************************************************************)
(* DOM capability surface                                                  *)
(***************************************************************************)
NoNode == "undefined"    \* childNodes[ i ] past the end of the array

hasAttribute(d, el, k) == k \in DOMAIN d[el].attributes

getAttribute(d, el, k) ==
  IF hasAttribute(d, el, k) THEN JSString(d[el].attributes[k]) ELSE Null

removeAttribute(d, el, k) ==
  [d EXCEPT ![el].attributes = [a \in (DOMAIN @) \ {k} |-> @[a]]]

setAttribute(d, el, k, v) ==
  [d EXCEPT ![el].attributes = [a \in (DOMAIN @) \cup {k} |-> IF a = k THEN v ELSE @[a]]]

\* members of NamedNodeMap.prototype: enumerable, so for-in yields them
NamedNodeMapProtoKeys ==
  {"length", "item", "getNamedItem", "getNamedItemNS", "setNamedItem",
   "setNamedItemNS", "removeNamedItem", "removeNamedItemNS"}

\* the keys `for (let k in el.attributes)` yields
NamedNodeMapForInKeys(d, el) ==
  {ToString(i) : i \in 0 .. Cardinality(DOMAIN d[el].attributes) - 1}
    \cup NamedNodeMapProtoKeys
    \cup (IF enumerableNames THEN DOMAIN d[el].attributes ELSE {})

\* el.attributes[ k ] for an attribute name k
NamedItem(d, el, k) ==
  IF hasAttribute(d, el, k) THEN Attr(k, d[el].attributes[k]) ELSE Undefined

(***************************************************************************)
(* Validation (__DEV__ build)                                              *)
(***************************************************************************)
DEV == TRUE   \* the test build replaces __DEV__ by true

IsObject(v) == "typeof" \notin DOMAIN v

\* validNode: the message of the TypeError it throws, NoError when it returns true
validNode(d, el) ==
  IF ~DEV THEN NoError
  ELSE IF el = NoNode THEN "el must be a DOM node"
  ELSE IF ~validNodeType(d[el].nodeName)
    THEN "el must be an SVG basic shape or group element"
  ELSE NoError

\* validFrameShape: the message of the TypeError it throws, NoError when it
\* returns true.  Every points / childFrameShapes value of the model is an
\* array, so the two Array.isArray tests pass.
validFrameShape(frameShp) ==
  IF ~DEV THEN NoError
  ELSE IF ~IsObject(frameShp) THEN "frameShape must be of type object"
  ELSE IF "attributes" \notin DOMAIN frameShp
    THEN "frameShape must include an attributes property"
  ELSE IF ~IsObject(frameShp.attributes)
    THEN "frameShape attributes property must be of type object"
  ELSE IF "childFrameShapes" \notin DOMAIN frameShp /\ "points" \notin DOMAIN frameShp
    THEN "frameShape must have either a points or childFrameShapes property"
  ELSE IF /\ "childFrameShapes" \in DOMAIN frameShp
          /\ \E i \in 1 .. Len(frameShp.childFrameShapes) :
               LET childFrameShape == frameShp.childFrameShapes[i]
               IN \/ ~IsObject(childFrameShape)
                  \/ "attributes" \notin DOMAIN childFrameShape
                  \/ ~IsObject(childFrameShape.attributes)
    THEN "frameShape childFrameShapes property must be array of frameShapes"
  ELSE NoError

(***************************************************************************)
(* Attribute differ of the earlier revision                                *)
(***************************************************************************)
\* current[ k ] of a plain object
Get(current, k) == IF k \in DOMAIN current THEN JSString(current[k]) ELSE Undefined

\* diff(current, next): the keys to remove and the keys to update
diff(current, next) ==
  LET currentKeys == DOMAIN current
      nextKeys == DOMAIN next
  IN [ remove |-> {k \in currentKeys : k \notin nextKeys},
       update |-> {k \in nextKeys :
                     k \in currentKeys \/ Get(current, k) /= JSString(next[k])} ]

(***************************************************************************)
(* Reconciler                                                              *)
(***************************************************************************)
\* acceptedChildNodes as it would be without the test of the node name
acceptedChildNodesAll(d, el) == d[el].childNodes

\* the accepted-kind children of el, in document order
acceptedChildNodes(d, el) == SelectSeq(d[el].childNodes, LAMBDA n : validNodeType(d[n].nodeName))

\* first for-in loop: the keys pushed on changes[ changesKey ].remove
removeKeys(d, el, nextAttributes) ==
  {k \in NamedNodeMapForInKeys(d, el) : k \notin DOMAIN nextAttributes}

\* second for-in loop: the keys assigned in changes[ changesKey ].update
updateKeys(d, el, nextAttributes) ==
  {k \in DOMAIN nextAttributes :
     LET c == NamedItem(d, el, k)
         n == JSString(nextAttributes[k])
     IN c = Undefined \/ c /= n}

\* the entry of `changes` for el, the leaf's update.d included
changeOf(d, el, frameShp) ==
  LET nextAttributes == frameShp.attributes
      keys == updateKeys(d, el, nextAttributes)
      isLeaf == "childFrameShapes" \notin DOMAIN frameShp
      nextPath == IF isLeaf THEN toPath(frameShp.points) ELSE ""
      setD == isLeaf /\ JSString(nextPath) /= getAttribute(d, el, "d")
  IN [ el |-> el,
       remove |-> removeKeys(d, el, nextAttributes),
       update |-> [k \in keys \cup (IF setD THEN {"d"} ELSE {}) |->
                     IF k = "d" /\ setD THEN nextPath ELSE nextAttributes[k]] ]

\* the loop `if (shouldApplyChanges)`: removes, then sets, change by change
RECURSIVE removeAll(_, _, _)
removeAll(d, el, keys) ==
  IF keys = {} THEN d
  ELSE LET k == CHOOSE x \in keys : TRUE
       IN removeAll(removeAttribute(d, el, k), el, keys \ {k})

RECURSIVE setAll(_, _, _, _)
setAll(d, el, update, keys) ==
  IF keys = {} THEN d
  ELSE LET k == CHOOSE x \in keys : TRUE
       IN setAll(setAttribute(d, el, k, update[k]), el, update, keys \ {k})

applyChange(d, change) ==
  setAll(removeAll(d, change.el, change.remove), change.el, change.update, DOMAIN change.update)

RECURSIVE applyChanges(_, _, _)
applyChanges(d, chs, i) ==
  IF i > Len(chs) THEN d ELSE applyChanges(applyChange(d, chs[i]), chs, i + 1)

\* updateNode(el, frameShp, changes): [error, changes, dom] when it returns or throws
RECURSIVE updateNode(_, _, _, _)
RECURSIVE updateChildren(_, _, _, _, _)

\* updateChildren as it would be if the loop stopped at the last aligned pair
updateChildrenAligned(d, childNodes, childFrameShapes, i, chs) ==
  IF i > Min(Len(childNodes), Len(childFrameShapes)) THEN [error |-> NoError, changes |-> chs]
  ELSE LET r == updateNode(d, childNodes[i], childFrameShapes[i], chs)
       IN IF r.error /= NoError THEN [error |-> r.error, changes |-> r.changes]
          ELSE updateChildren(d, childNodes, childFrameShapes, i + 1, r.changes)

\* updateChildren as it would be if the loop ran over the live children,
\* the last frame shape serving the excess ones
updateChildrenOfNode(d, childNodes, childFrameShapes, i, chs) ==
  IF i > Len(childFrameShapes) /\ (i > Len(childNodes) \/ Len(childFrameShapes) = 0)
    THEN [error |-> NoError, changes |-> chs]
  ELSE LET n == IF i <= Len(childNodes) THEN childNodes[i] ELSE NoNode
           r == updateNode(d, n, childFrameShapes[Min(i, Len(childFrameShapes))], chs)
       IN IF r.error /= NoError THEN [error |-> r.error, changes |-> r.changes]
          ELSE updateChildren(d, childNodes, childFrameShapes, i + 1, r.changes)

\* the loop over childFrameShapes, a throw of a recursive call ending it
updateChildren(d, childNodes, childFrameShapes, i, chs) ==
  IF i > Len(childFrameShapes) THEN [error |-> NoError, changes |-> chs]
  ELSE LET n == IF i <= Len(childNodes) THEN childNodes[i] ELSE NoNode
           r == updateNode(d, n, childFrameShapes[i], chs)
       IN IF r.error /= NoError THEN [error |-> r.error, changes |-> r.changes]
          ELSE updateChildren(d, childNodes, childFrameShapes, i + 1, r.changes)

\* updateNode as it would be if the change of a node were pushed after the
\* changes of its children, as the earlier revision ordered its calls
updateNodePostOrder(d, el, frameShp, chs) ==
  IF validNode(d, el) /= NoError
    THEN [error |-> validNode(d, el), changes |-> chs, dom |-> d]
  ELSE IF validFrameShape(frameShp) /= NoError
    THEN [error |-> validFrameShape(frameShp), changes |-> chs, dom |-> d]
  ELSE
    LET shouldApplyChanges == Len(chs) = 0
        changesKey == Len(chs) + 1
        pushed == Append(chs, changeOf(d, el, frameShp))
        r == IF "childFrameShapes" \notin DOMAIN frameShp
               THEN [error |-> NoError, changes |-> pushed]
               ELSE updateChildren(d, acceptedChildNodes(d, el),
                                   frameShp.childFrameShapes, 1, pushed)
        moved == SubSeq(r.changes, 1, changesKey - 1)
                   \o SubSeq(r.changes, changesKey + 1, Len(r.changes))
                   \o <<r.changes[changesKey]>>
    IN IF r.error /= NoError THEN [error |-> r.error, changes |-> r.changes, dom |-> d]
       ELSE [ error |-> NoError,
              changes |-> moved,
              dom |-> IF shouldApplyChanges THEN applyChanges(d, moved, 1) ELSE d ]

\* updateNode as it would be if every change were applied as soon as it is
\* collected, as the earlier revision did
updateNodeEager(d, el, frameShp, chs) ==
  IF validNode(d, el) /= NoError
    THEN [error |-> validNode(d, el), changes |-> chs, dom |-> applyChanges(d, chs, 1)]
  ELSE IF validFrameShape(frameShp) /= NoError
    THEN [error |-> validFrameShape(frameShp), changes |-> chs, dom |-> applyChanges(d, chs, 1)]
  ELSE
    LET pushed == Append(chs, changeOf(d, el, frameShp))
        r == IF "childFrameShapes" \notin DOMAIN frameShp
               THEN [error |-> NoError, changes |-> pushed]
               ELSE updateChildren(d, acceptedChildNodes(d, el),
                                   frameShp.childFrameShapes, 1, pushed)
    IN [error |-> r.error, changes |-> r.changes, dom |-> applyChanges(d, r.changes, 1)]

updateNode(d, el, frameShp, chs) ==
  IF validNode(d, el) /= NoError
    THEN [error |-> validNode(d, el), changes |-> chs, dom |-> d]
  ELSE IF validFrameShape(frameShp) /= NoError
    THEN [error |-> validFrameShape(frameShp), changes |-> chs, dom |-> d]
  ELSE
    LET shouldApplyChanges == Len(chs) = 0
        pushed == Append(chs, changeOf(d, el, frameShp))
        r == IF "childFrameShapes" \notin DOMAIN frameShp
               THEN [error |-> NoError, changes |-> pushed]
               ELSE updateChildren(d, acceptedChildNodes(d, el),
                                   frameShp.childFrameShapes, 1, pushed)
    IN IF r.error /= NoError THEN [error |-> r.error, changes |-> r.changes, dom |-> d]
       ELSE [ error |-> NoError,
              changes |-> r.changes,
              dom |-> IF shouldApplyChanges THEN applyChanges(d, r.changes, 1) ELSE d ]

(***************************************************************************)
(* Points codec (svg-points): the points of a plain shape object.          *)
(***************************************************************************)
\* Number(v) of the attribute values the model uses; any other string is NaN
Numerals ==
  [n \in {"0", "10", "20", "30", "30.0", "50", "60"} |->
     CASE n = "0" -> 0 [] n = "10" -> 10 [] n = "20" -> 20 [] n = "30" -> 30
       [] n = "30.0" -> 30 [] n = "50" -> 50 [] n = "60" -> 60]

\* the coordinate pairs of the `points` attribute of a polygon or polyline
PointLists == [p \in {"0,0 10,0 10,10"} |-> <<Pt(0, 0, TRUE), Pt(10, 0, FALSE), Pt(10, 10, FALSE)>>]

\* the points of a basic shape
shapeToPoints(s) ==
  CASE s.type = "circle" ->
         <<Pt(s.cx, s.cy - s.r, TRUE), ArcTo(s.cx, s.cy + s.r, s.r, s.r),
           ArcTo(s.cx, s.cy - s.r, s.r, s.r)>>
    [] s.type = "ellipse" ->
         <<Pt(s.cx, s.cy - s.ry, TRUE), ArcTo(s.cx, s.cy + s.ry, s.rx, s.ry),
           ArcTo(s.cx, s.cy - s.ry, s.rx, s.ry)>>
    [] s.type = "line" -> <<Pt(s.x1, s.y1, TRUE), Pt(s.x2, s.y2, FALSE)>>
    [] s.type = "polyline" -> PointLists[s.points]
    [] s.type = "polygon" ->
         Append(PointLists[s.points],
                Pt(PointLists[s.points][1].x, PointLists[s.points][1].y, FALSE))
    [] s.type = "rect" ->
         <<Pt(s.x, s.y, TRUE), Pt(s.x + s.width, s.y, FALSE),
           Pt(s.x + s.width, s.y + s.height, FALSE), Pt(s.x, s.y + s.height, FALSE),
           Pt(s.x, s.y, FALSE)>>

\* the basic shapes of the model, as plain shape objects
BasicShapes ==
  {[type |-> "circle", cx |-> 50, cy |-> 50, r |-> 30],
   [type |-> "ellipse", cx |-> 50, cy |-> 50, rx |-> 30, ry |-> 20],
   [type |-> "line", x1 |-> 0, x2 |-> 10, y1 |-> 0, y2 |-> 0],
   [type |-> "line", x1 |-> 10, x2 |-> 20, y1 |-> 10, y2 |-> 10],
   [type |-> "polygon", points |-> "0,0 10,0 10,10"],
   [type |-> "polyline", points |-> "0,0 10,0 10,10"],
   [type |-> "rect", height |-> 60, width |-> 60, x |-> 20, y |-> 20]}

\* the points a path string is parsed to: parsing inverts toPath, and
\* 'M0,0L10,0' is a second spelling of 'M0,0H10'
pathToPoints(dstr) ==
  IF dstr = "M0,0L10,0" THEN P0
  ELSE CHOOSE pts \in {P0, P1} \cup {shapeToPoints(b) : b \in BasicShapes} : toPath(pts) = dstr

toPoints(s) == IF s.type = "path" THEN pathToPoints(s.d) ELSE shapeToPoints(s)

(***************************************************************************)
(* Reader                                                                  *)
(***************************************************************************)
\* nodeData as it would be without the attribute blacklist
nodeDataAll(d, el) ==
  [ attributes |-> d[el].attributes,
    childNodes |-> d[el].childNodes,
    type |-> d[el].nodeName ]

nodeData(d, el) ==
  [ attributes |-> [k \in DOMAIN d[el].attributes \ attributeBlacklist |-> d[el].attributes[k]],
    childNodes |-> d[el].childNodes,
    type |-> d[el].nodeName ]

plainShapeObjectFromAttrs(type, attributes) ==
  [k \in {"type"} \cup (DOMAIN attributes \cap coreProps(type)) |->
     IF k = "type" THEN type
     ELSE IF attributes[k] \in DOMAIN Numerals THEN Numerals[attributes[k]]
     ELSE attributes[k]]

\* removeCoreProps as it would be if it kept every attribute
removeCorePropsKept(type, attributes) == attributes

removeCoreProps(type, attributes) ==
  [k \in DOMAIN attributes \ coreProps(type) |-> attributes[k]]

\* frameShape(el): [error, shape] when it throws or returns
RECURSIVE frameShape(_, _)
RECURSIVE childShapes(_, _, _)

\* the loop over childNodes, the children of other kinds skipped
childShapes(d, childNodes, i) ==
  IF i > Len(childNodes) THEN <<>>
  ELSE (IF validNodeType(d[childNodes[i]].nodeName)
          THEN <<frameShape(d, childNodes[i]).shape>>
          ELSE <<>>) \o childShapes(d, childNodes, i + 1)

frameShape(d, el) ==
  IF validNode(d, el) /= NoError THEN [error |-> validNode(d, el), shape |-> Undefined]
  ELSE LET data == nodeData(d, el)
       IN IF data.type = "g"
            THEN [ error |-> NoError,
                   shape |-> [ attributes |-> data.attributes,
                               childFrameShapes |-> childShapes(d, data.childNodes, 1) ] ]
            ELSE [ error |-> NoError,
                   shape |-> [ attributes |-> removeCoreProps(data.type, data.attributes),
                               points |-> toPoints(plainShapeObjectFromAttrs(data.type, data.attributes)) ] ]

(***************************************************************************)
(* Writer                                                                  *)
(***************************************************************************)
\* document.createElementNS: a fresh node
NewNode(d) == "w" \o ToString(Cardinality(DOMAIN d))

createElementNS(d, name) == d @@ (NewNode(d) :> [nodeName |-> name, attributes |-> EmptyMap, childNodes |-> <<>>])

appendChild(d, parent, child) == [d EXCEPT ![parent].childNodes = Append(@, child)]

RECURSIVE appendAll(_, _, _, _)

\* appendAll as it would be if the children were appended last first
appendAllReversed(d, group, nodes, i) ==
  IF i > Len(nodes) THEN d
  ELSE appendChild(appendAll(d, group, nodes, i + 1), group, nodes[i])

appendAll(d, group, nodes, i) ==
  IF i > Len(nodes) THEN d ELSE appendAll(appendChild(d, group, nodes[i]), group, nodes, i + 1)

\* pathNode(points): [dom, el]
pathNode(d, points) ==
  [dom |-> setAttribute(createElementNS(d, "path"), NewNode(d), "d", toPath(points)), el |-> NewNode(d)]

\* node(frameShp) and groupNode(childFrameShapes): [error, dom, el]
RECURSIVE node(_, _)
RECURSIVE childNodesOf(_, _, _, _)

\* the first loop of groupNode: [error, dom, nodes]
childNodesOf(d, childFrameShapes, i, nodes) ==
  IF i > Len(childFrameShapes) THEN [error |-> NoError, dom |-> d, nodes |-> nodes]
  ELSE LET r == node(d, childFrameShapes[i])
       IN IF r.error /= NoError THEN [error |-> r.error, dom |-> r.dom, nodes |-> nodes]
          ELSE childNodesOf(r.dom, childFrameShapes, i + 1, Append(nodes, r.el))

groupNode(d, childFrameShapes) ==
  LET r == childNodesOf(d, childFrameShapes, 1, <<>>)
  IN IF r.error /= NoError THEN [error |-> r.error, dom |-> r.dom, el |-> NoNode]
     ELSE [ error |-> NoError,
            dom |-> appendAll(createElementNS(r.dom, "g"), NewNode(r.dom), r.nodes, 1),
            el |-> NewNode(r.dom) ]

node(d, frameShp) ==
  IF validFrameShape(frameShp) /= NoError
    THEN [error |-> validFrameShape(frameShp), dom |-> d, el |-> NoNode]
  ELSE LET r == IF "childFrameShapes" \in DOMAIN frameShp
                  THEN groupNode(d, frameShp.childFrameShapes)
                  ELSE [error |-> NoError] @@ pathNode(d, frameShp.points)
       IN IF r.error /= NoError THEN r
          ELSE [ error |-> NoError,
                 dom |-> setAll(r.dom, r.el, frameShp.attributes, DOMAIN frameShp.attributes),
                 el |-> r.el ]

(***************************************************************************)
(* Inputs                                                                  *)
(***************************************************************************)
S0 == toPath(P0)
S1 == toPath(P1)

SeqsUpTo(S, n) == UNION {[1 .. k -> S] : k \in 0 .. n}

FsAttributes == {EmptyMap, [fill |-> "red"]}

LeafFrameShapes == {[attributes |-> a, points |-> p] : a \in FsAttributes, p \in {P0, P1}}

NoShape == [attributes |-> EmptyMap]   \* neither points nor childFrameShapes
NoAttributes == [points |-> P0]        \* no attributes property
Potato == JSString("potato")           \* not an object

\* points and childFrameShapes at once
Both ==
  [ attributes |-> [fill |-> "red"],
    childFrameShapes |-> <<[attributes |-> EmptyMap, points |-> P1]>>,
    points |-> P0 ]

\* a leaf whose attributes name the geometry attribute of a path
LeafWithD == [attributes |-> [d |-> S1], points |-> P0]

\* frame shapes of the children of a child group
NestedLeafFrameShapes == {[attributes |-> [fill |-> "red"], points |-> P1], NoShape}

NestedFrameShapes ==
  {[attributes |-> a, childFrameShapes |-> c] :
     a \in FsAttributes, c \in SeqsUpTo(NestedLeafFrameShapes, MaxNestedKids)}

ChildFrameShapes == LeafFrameShapes \cup {NoShape} \cup NestedFrameShapes

FrameShapes ==
  LeafFrameShapes \cup {NoShape, NoAttributes, Potato, Both}
    \cup {[attributes |-> a, childFrameShapes |-> c] :
            a \in FsAttributes, c \in SeqsUpTo(ChildFrameShapes, MaxKids)}

PathAttributes == {EmptyMap, [d |-> S0], [d |-> S0, fill |-> "yellow"], [d |-> S1, fill |-> "red"]}
GroupAttributes == {EmptyMap, [fill |-> "red"], [fill |-> "yellow"]}
NestedPathAttributes == {[d |-> S0], [d |-> S1, fill |-> "yellow"]}
NestedGroupAttributes == {EmptyMap, [fill |-> "red"]}

Element(name, attrs, kids) == [nodeName |-> name, attributes |-> attrs, childNodes |-> kids]

\* <g> <path/> text <g> <path/> </g> </g>
Trees ==
  { [ n0 |-> Element("g", a0, <<"n1", "t", "n2">>),
      n1 |-> Element("path", a1, <<>>),
      t  |-> Element("#text", EmptyMap, <<>>),
      n2 |-> Element("g", a2, <<"n3">>),
      n3 |-> Element("path", a3, <<>>) ] :
      a0 \in GroupAttributes, a1 \in PathAttributes,
      a2 \in NestedGroupAttributes, a3 \in NestedPathAttributes }

\* the nodes updateNode is called on: the elements, the text node, and a value
\* that is not a node
CallTargets == {"n0", "n1", "t", "n2", NoNode}

(***************************************************************************)
(* Specification of the reconciler                                         *)
(***************************************************************************)
Init ==
  /\ enumerableNames \in BOOLEAN
  /\ dom \in Trees
  /\ pre = dom
  /\ callEl = NoNode
  /\ callFs = Undefined
  /\ result = "none"
  /\ error = NoError
  /\ returned = NoNode
  /\ changes = <<>>
  /\ calls = 0
  /\ shape = Undefined
  /\ built = NoNode

Call(el, frameShp) ==
  LET r == updateNode(dom, el, frameShp, <<>>)
  IN /\ calls' = calls + 1
     /\ pre' = dom
     /\ callEl' = el
     /\ callFs' = frameShp
     /\ dom' = r.dom
     /\ error' = r.error
     /\ result' = IF r.error = NoError THEN "returned" ELSE "threw"
     /\ returned' = IF r.error = NoError THEN el ELSE NoNode
     /\ changes' = IF r.error = NoError THEN r.changes ELSE <<>>
     /\ UNCHANGED <<enumerableNames, shape, built>>

\* updateNode(el, frameShp) on a tree that has not been reconciled yet
UpdateNode ==
  /\ calls = 0
  /\ \E el \in CallTargets, frameShp \in FrameShapes : Call(el, frameShp)

\* the next animation tick: updateNode again with the same arguments
UpdateNodeAgain ==
  /\ calls > 0
  /\ calls < MaxCalls
  /\ Call(callEl, callFs)

Next == UpdateNode \/ UpdateNodeAgain

Spec == Init /\ [][Next]_vars

(***************************************************************************)
(* Specification of the reader and the writer                              *)
(***************************************************************************)
LeafTypes == nodeTypes \ {"g"}

\* the core attributes of the nodes frameShape reads
PathStrings == {S0, S1, "M0,0L10,0"}

CoreAttributes(type) ==
  CASE type = "circle" -> {[cx |-> "50", cy |-> "50", r |-> v] : v \in {"30", "30.0"}}
    [] type = "ellipse" -> {[cx |-> "50", cy |-> "50", rx |-> "30", ry |-> "20"]}
    [] type = "line" -> {[x1 |-> "0", x2 |-> "10", y1 |-> "0", y2 |-> "0"],
                         [x1 |-> "10", x2 |-> "20", y1 |-> "10", y2 |-> "10"]}
    [] type = "path" -> {[d |-> v] : v \in PathStrings}
    [] type = "polygon" -> {[points |-> "0,0 10,0 10,10"]}
    [] type = "polyline" -> {[points |-> "0,0 10,0 10,10"]}
    [] type = "rect" -> {[height |-> "60", width |-> "60", x |-> "20", y |-> "20"]}
    [] type = "g" -> {EmptyMap}

\* the other attributes a node may carry
ExtraAttributes ==
  [k \in {"fill", "d", "r", "data-reactid"} |->
     CASE k = "fill" -> "red" [] k = "d" -> S1 [] k = "r" -> "5" [] k = "data-reactid" -> ".0"]

NodeAttributes(type) ==
  {core @@ [k \in names |-> ExtraAttributes[k]] :
     core \in CoreAttributes(type),
     names \in {x \in SUBSET (DOMAIN ExtraAttributes \ coreProps(type)) : Cardinality(x) <= MaxExtra}}

\* a leaf of any accepted kind
LeafTrees ==
  UNION {{[n0 |-> Element(type, a, <<>>)] : a \in NodeAttributes(type)} : type \in LeafTypes}

\* <g> leaf text <g> <path/> </g> </g>
GroupTreesOf(type) ==
  { [ n0 |-> Element("g", a0, <<"n1", "t", "n2">>),
      n1 |-> Element(type, a1, <<>>),
      t  |-> Element("#text", EmptyMap, <<>>),
      n2 |-> Element("g", [fill |-> "red"], <<"n3">>),
      n3 |-> Element("path", [d |-> "M0,0L10,0", fill |-> "red"], <<>>) ] :
      a0 \in NodeAttributes("g"), a1 \in CoreAttributes(type) }

GroupTrees == GroupTreesOf("circle") \cup GroupTreesOf("path")

InitReader ==
  /\ enumerableNames \in BOOLEAN
  /\ dom \in LeafTrees \cup GroupTrees
  /\ pre = dom
  /\ callEl = NoNode
  /\ callFs = Undefined
  /\ result = "none"
  /\ error = NoError
  /\ returned = NoNode
  /\ changes = <<>>
  /\ calls = 0
  /\ shape = Undefined
  /\ built = NoNode

\* frameShape(el) on a node of the tree
ReadFrameShape ==
  /\ result = "none"
  /\ \E el \in DOMAIN dom :
       LET r == frameShape(dom, el)
       IN /\ callEl' = el
          /\ shape' = r.shape
          /\ error' = r.error
          /\ result' = IF r.error = NoError THEN "read" ELSE "threw"
  /\ calls' = calls + 1
  /\ pre' = dom
  /\ UNCHANGED <<enumerableNames, dom, callFs, returned, changes, built>>

\* node(frameShp) on the FrameShape just read
WriteNode ==
  /\ result = "read"
  /\ LET r == node(dom, shape)
     IN /\ dom' = r.dom
        /\ built' = r.el
        /\ error' = r.error
        /\ result' = IF r.error = NoError THEN "written" ELSE "threw"
  /\ calls' = calls + 1
  /\ pre' = dom
  /\ UNCHANGED <<enumerableNames, callEl, callFs, returned, changes, shape>>

NextReader == ReadFrameShape \/ WriteNode

SpecReader == InitReader /\ [][NextReader]_vars

(***************************************************************************)
(* Specification of the writer and the reconciler, each called once        *)
(***************************************************************************)
\* node(frameShp): the nodes it creates join the nodes of the document
CreateNode ==
  /\ calls = 0
  /\ \E frameShp \in FrameShapes \cup {LeafWithD} :
       LET r == node(dom, frameShp)
       IN /\ callFs' = frameShp
          /\ dom' = r.dom
          /\ built' = r.el
          /\ error' = r.error
          /\ result' = IF r.error = NoError THEN "created" ELSE "create threw"
  /\ calls' = calls + 1
  /\ pre' = dom
  /\ UNCHANGED <<enumerableNames, callEl, returned, changes, shape>>

NextWriter == CreateNode \/ UpdateNode

SpecWriter == Init /\ [][NextWriter]_vars

(***************************************************************************)
(* Specification of the attribute differ: diff on two attribute maps, and  *)
(* the two loops updateNode has in its place, on an element that has the   *)
(* first map as its attributes                                             *)
(***************************************************************************)
DiffKeys == {"class", "fill"}
DiffValues == {"red", "yellow"}

AttributeMaps == UNION {[K -> DiffValues] : K \in SUBSET DiffKeys}

InitDiff ==
  /\ enumerableNames \in BOOLEAN
  /\ dom \in {[n0 |-> Element("path", current, <<>>)] : current \in AttributeMaps}
  /\ pre = dom
  /\ callEl = "n0"
  /\ callFs \in {[attributes |-> next, points |-> P0] : next \in AttributeMaps}
  /\ result = "none"
  /\ error = NoError
  /\ returned = NoNode
  /\ changes = <<>>
  /\ calls = 0
  /\ shape = Undefined
  /\ built = NoNode

\* const { remove, update } = diff(current, next)
Diff ==
  /\ result = "none"
  /\ LET r == diff(dom[callEl].attributes, callFs.attributes)
     IN changes' = <<[ el |-> callEl,
                       remove |-> r.remove,
                       update |-> [k \in r.update |-> callFs.attributes[k]] ]>>
  /\ result' = "diffed"
  /\ calls' = calls + 1
  /\ UNCHANGED <<enumerableNames, dom, pre, callEl, callFs, error, returned, shape, built>>

\* the two for-in loops of updateNode
DiffInlined ==
  /\ result = "none"
  /\ changes' = <<[ el |-> callEl,
                    remove |-> removeKeys(dom, callEl, callFs.attributes),
                    update |-> [k \in updateKeys(dom, callEl, callFs.attributes) |->
                                  callFs.attributes[k]] ]>>
  /\ result' = "inlined"
  /\ calls' = calls + 1
  /\ UNCHANGED <<enumerableNames, dom, pre, callEl, callFs, error, returned, shape, built>>

NextDiff == Diff \/ DiffInlined

SpecDiff == InitDiff /\ [][NextDiff]_vars

(***************************************************************************)
(* Specification of self-reconciliation: updateNode(el, frameShape(el))    *)
(***************************************************************************)
\* <g> text <circle/> <div/> <path/> </g>
MixedTrees ==
  { [ n0 |-> Element("g", EmptyMap, <<"t", "n1", "x", "n2">>),
      t  |-> Element("#text", EmptyMap, <<>>),
      n1 |-> Element("circle", a1, <<>>),
      x  |-> Element("div", [fill |-> "red"], <<>>),
      n2 |-> Element("path", a2, <<>>) ] :
      a1 \in CoreAttributes("circle"),
      a2 \in {[d |-> v, fill |-> "red"] : v \in PathStrings} }

InitSelf ==
  /\ enumerableNames \in BOOLEAN
  /\ dom \in LeafTrees \cup GroupTrees \cup MixedTrees
  /\ pre = dom
  /\ callEl = NoNode
  /\ callFs = Undefined
  /\ result = "none"
  /\ error = NoError
  /\ returned = NoNode
  /\ changes = <<>>
  /\ calls = 0
  /\ shape = Undefined
  /\ built = NoNode

\* updateNode(el, frameShp) with the FrameShape just read from el
UpdateNodeSelf ==
  /\ result = "read"
  /\ Call(callEl, shape)

NextSelf == ReadFrameShape \/ UpdateNodeSelf

SpecSelf == InitSelf /\ [][NextSelf]_vars

(***************************************************************************)
(* Vocabulary of the properties                                            *)
(***************************************************************************)
IsGroupShape(f) == "childFrameShapes" \in DOMAIN f
IsLeafShape(f) == "points" \in DOMAIN f /\ "childFrameShapes" \notin DOMAIN f

\* the (live node, frame shape) pairs that positional alignment gives
RECURSIVE Paired(_, _, _)
Paired(d, el, f) ==
  {<<el, f>>} \cup
    (IF IsGroupShape(f)
       THEN LET kids == acceptedChildNodes(d, el)
            IN UNION {Paired(d, kids[i], f.childFrameShapes[i]) :
                        i \in 1 .. Min(Len(kids), Len(f.childFrameShapes))}
       ELSE {})

LastPairs == Paired(pre, callEl, callFs)
PairedNodes == {p[1] : p \in LastPairs}
Returned == result = "returned"
Threw == result = "threw"

\* the attribute keys the last call removed from, or set on, node n
RemovedKeys(n) == UNION {changes[i].remove : i \in {j \in 1 .. Len(changes) : changes[j].el = n}}
SetKeys(n) == UNION {DOMAIN changes[i].update : i \in {j \in 1 .. Len(changes) : changes[j].el = n}}

C2_AttributesMatch ==
  Returned =>
    \A p \in LastPairs :
      /\ (DOMAIN dom[p[1]].attributes) \ {"d"} = (DOMAIN p[2].attributes) \ {"d"}
      /\ \A k \in (DOMAIN p[2].attributes) \ {"d"} : dom[p[1]].attributes[k] = p[2].attributes[k]

(***************************************************************************)
(* C3: children are paired by position: the i-th accepted child ends with  *)
(* the geometry and the attributes of childFrameShapes[i] and nothing      *)
(* else, and the group's own attributes come only from its frame shape.    *)
(***************************************************************************)
C3_PositionalPairing ==
  (Returned /\ IsGroupShape(callFs)) =>
    \A p \in LastPairs :
      /\ \A k \in DOMAIN dom[p[1]].attributes :
           \/ k \in DOMAIN p[2].attributes /\ dom[p[1]].attributes[k] = p[2].attributes[k]
           \/ k = "d" /\ IsLeafShape(p[2]) /\ dom[p[1]].attributes[k] = toPath(p[2].points)
      /\ DOMAIN p[2].attributes \subseteq DOMAIN dom[p[1]].attributes
      /\ IsLeafShape(p[2]) => hasAttribute(dom, p[1], "d")

(***************************************************************************)
(* C4: idempotence: a second call with the same arguments computes an      *)
(* empty remove list and an empty update map for every node it visits,     *)
(* and leaves the tree as the first call left it.                          *)
(***************************************************************************)
C4_Idempotent ==
  (calls >= 2 /\ Returned) =>
    /\ \A i \in 1 .. Len(changes) : changes[i].remove = {} /\ DOMAIN changes[i].update = {}
    /\ dom = pre

(***************************************************************************)
(* C5: minimality: an attribute a visited node already has with the value  *)
(* its frame shape gives is neither set nor removed by the call.           *)
(***************************************************************************)
C5_Minimal ==
  Returned =>
    \A p \in LastPairs :
      \A k \in DOMAIN pre[p[1]].attributes \cap DOMAIN p[2].attributes :
        pre[p[1]].attributes[k] = p[2].attributes[k]
          => k \notin RemovedKeys(p[1]) /\ k \notin SetKeys(p[1])

(***************************************************************************)
(* C6: failure atomicity: a call that throws, at the top or in a nested    *)
(* recursive call, leaves every node of the live tree as it was.           *)
(***************************************************************************)
C6_FailureAtomic == Threw => dom = pre

\* a call that threw in a recursive call, after a change for the group and a
\* change for its first child had been collected
C6_Witness ==
  /\ Threw
  /\ callEl = "n0"
  /\ validFrameShape(callFs) = NoError
  /\ IsGroupShape(callFs)
  /\ Len(callFs.childFrameShapes) = 2
  /\ IsLeafShape(callFs.childFrameShapes[1])
  /\ callFs.childFrameShapes[1].attributes = [fill |-> "red"]
  /\ ~hasAttribute(pre, "n1", "fill")
  /\ IsGroupShape(callFs.childFrameShapes[2])
  /\ callFs.childFrameShapes[2].childFrameShapes = <<NoShape>>
  /\ error = "frameShape must have either a points or childFrameShapes property"

\* every defect-free pairing, the target's excess children ignored
RECURSIVE ValidBesidesExcess(_, _, _)
ValidBesidesExcess(d, el, f) ==
  /\ validNode(d, el) = NoError
  /\ validFrameShape(f) = NoError
  /\ IsGroupShape(f) =>
       LET kids == acceptedChildNodes(d, el)
       IN \A i \in 1 .. Min(Len(kids), Len(f.childFrameShapes)) :
            ValidBesidesExcess(d, kids[i], f.childFrameShapes[i])

\* the call of C7: a live group, a frame shape with more children than it
\* has accepted children, and no defect in any aligned pair
C7_ExcessTarget ==
  /\ result /= "none"
  /\ callEl /= NoNode
  /\ pre[callEl].nodeName = "g"
  /\ IsObject(callFs)
  /\ IsGroupShape(callFs)
  /\ Len(callFs.childFrameShapes) > Len(acceptedChildNodes(pre, callEl))
  /\ ValidBesidesExcess(pre, callEl, callFs)

(***************************************************************************)
(* C7: a group frame shape with more childFrameShapes than the live group  *)
(* has accepted children does not make updateNode fail: the call returns,  *)
(* the aligned pairs and the group are updated, no child is created.       *)
(***************************************************************************)
C7_ExcessTargetIgnored ==
  C7_ExcessTarget =>
    /\ Returned
    /\ \A n \in DOMAIN dom : dom[n].childNodes = pre[n].childNodes

(***************************************************************************)
(* C7 as amended: such a call throws the TypeError 'el must be a DOM node' *)
(* for the first target child that has no live counterpart, and no node    *)
(* is mutated or created.                                                  *)
(***************************************************************************)
C7_ExcessTargetThrows ==
  C7_ExcessTarget =>
    /\ Threw
    /\ error = "el must be a DOM node"
    /\ dom = pre

\* updateNode on the child group <g><path/></g> with two child frame shapes
C7_Witness ==
  /\ C7_ExcessTarget
  /\ callEl = "n2"
  /\ Len(callFs.childFrameShapes) = 2
  /\ IsLeafShape(callFs.childFrameShapes[1])
  /\ toPath(callFs.childFrameShapes[1].points) /= pre["n3"].attributes["d"]
  /\ Threw

(***************************************************************************)
(* C8: frame condition: a call changes attribute values of positionally    *)
(* paired nodes only: no node is created, removed, reordered or re-typed,  *)
(* unpaired nodes (excess live children, children of other kinds) keep     *)
(* everything, and the call returns the node it was given.                 *)
(***************************************************************************)
C8_Frame ==
  result /= "none" =>
    /\ DOMAIN dom = DOMAIN pre
    /\ \A n \in DOMAIN dom :
         /\ dom[n].nodeName = pre[n].nodeName
         /\ dom[n].childNodes = pre[n].childNodes
         /\ (Threw \/ n \notin PairedNodes) => dom[n] = pre[n]
    /\ Returned => returned = callEl

\* a group call that left an excess live child and a text child alone while
\* changing the child it was aligned with
C8_Witness ==
  /\ Returned
  /\ callEl = "n0"
  /\ IsGroupShape(callFs)
  /\ Len(callFs.childFrameShapes) = 1
  /\ dom["n1"] /= pre["n1"]
  /\ "n2" \notin PairedNodes
  /\ "n3" \notin PairedNodes
  /\ "t" \notin PairedNodes
  /\ hasAttribute(dom, "n2", "fill")

\* every write of the last call carries a value of the frame shape its node
\* is aligned with
PairingOfWrites ==
  Returned =>
    /\ \A i \in 1 .. Len(changes) : changes[i].el \in PairedNodes
    /\ \A p \in LastPairs : \A i \in 1 .. Len(changes) :
         changes[i].el = p[1] =>
           /\ \A k \in DOMAIN changes[i].update :
                \/ k \in DOMAIN p[2].attributes /\ changes[i].update[k] = p[2].attributes[k]
                \/ k = "d" /\ IsLeafShape(p[2]) /\ changes[i].update[k] = toPath(p[2].points)
           /\ changes[i].remove \cap DOMAIN p[2].attributes = {}

\* the map m without the keys of K
Without(m, K) == [k \in DOMAIN m \ K |-> m[k]]

\* the resolved geometry path string of a leaf node, and its non-core attributes
ResolvedPath(d, n) == toPath(toPoints(plainShapeObjectFromAttrs(d[n].nodeName, d[n].attributes)))
NonCoreAttributes(d, n) == Without(d[n].attributes, coreProps(d[n].nodeName))

\* node(frameShape(n)) has returned for a leaf n
RoundTripDone == result = "written" /\ pre[callEl].nodeName /= "g"

(***************************************************************************)
(* C9: round trip: for a leaf n of any accepted kind, node(frameShape(n))  *)
(* has the kind of n, the resolved geometry path string of n and exactly   *)
(* the non-core attributes of n.                                           *)
(***************************************************************************)
C9_RoundTrip ==
  RoundTripDone =>
    /\ dom[built].nodeName = pre[callEl].nodeName
    /\ ResolvedPath(dom, built) = ResolvedPath(pre, callEl)
    /\ NonCoreAttributes(dom, built) = NonCoreAttributes(pre, callEl)

(***************************************************************************)
(* C9 as amended: node(frameShape(n)) is a path node whatever the kind of  *)
(* n; its attributes other than 'd' are the non-core attributes of n that  *)
(* are not blacklisted, with their values; its 'd' is the resolved         *)
(* geometry path string of n, unless n is not a path and has an attribute  *)
(* 'd', whose value then replaces it.                                      *)
(***************************************************************************)
C9_RoundTripToPath ==
  RoundTripDone =>
    /\ dom[built].nodeName = "path"
    /\ dom[built].childNodes = <<>>
    /\ Without(dom[built].attributes, {"d"})
         = Without(NonCoreAttributes(pre, callEl), attributeBlacklist \cup {"d"})
    /\ hasAttribute(dom, built, "d")
    /\ dom[built].attributes["d"] =
         (IF "d" \in DOMAIN NonCoreAttributes(pre, callEl)
            THEN pre[callEl].attributes["d"]
            ELSE ResolvedPath(pre, callEl))

\* a circle with r = '30.0', a fill and a data-reactid, read and written back
C9_Witness ==
  /\ RoundTripDone
  /\ pre[callEl].nodeName = "circle"
  /\ pre[callEl].attributes["r"] = "30.0"
  /\ DOMAIN pre[callEl].attributes = {"cx", "cy", "r", "fill", "data-reactid"}
  /\ dom[built].attributes = [d |-> "M50,20A30,30,0,0,1,50,80A30,30,0,0,1,50,20Z", fill |-> "red"]

\* the Frame Shape invariant of f, read from node el, at every depth
RECURSIVE FrameShapeInvariant(_, _, _)
FrameShapeInvariant(d, el, f) ==
  /\ "attributes" \in DOMAIN f
  /\ ("points" \in DOMAIN f) /= ("childFrameShapes" \in DOMAIN f)
  /\ ("childFrameShapes" \in DOMAIN f) <=> (d[el].nodeName = "g")
  /\ "points" \in DOMAIN f => DOMAIN f.attributes \cap coreProps(d[el].nodeName) = {}
  /\ "childFrameShapes" \in DOMAIN f =>
       /\ f.attributes = Without(d[el].attributes, attributeBlacklist)
       /\ Len(f.childFrameShapes) = Len(acceptedChildNodes(d, el))
       /\ \A i \in 1 .. Len(f.childFrameShapes) :
            FrameShapeInvariant(d, acceptedChildNodes(d, el)[i], f.childFrameShapes[i])

(***************************************************************************)
(* C10: every FrameShape frameShape returns satisfies, at every depth, the *)
(* Frame Shape invariant: attributes present; exactly one of points and    *)
(* childFrameShapes, childFrameShapes exactly for a group; no core         *)
(* attribute name of its kind in a leaf's attributes; a group's extracted  *)
(* attributes passed through without that filter.                          *)
(***************************************************************************)
C10_FrameShapeInvariant ==
  result = "read" => FrameShapeInvariant(dom, callEl, shape)

\* a group that has a 'd' and an 'r' of its own, a circle, a text node and a
\* group child, read at depth two
C10_Witness ==
  /\ result = "read"
  /\ callEl = "n0"
  /\ "n1" \in DOMAIN dom
  /\ dom["n0"].attributes = [d |-> S1, r |-> "5"]
  /\ dom["n1"].nodeName = "circle"
  /\ Len(shape.childFrameShapes) = 2
  /\ shape.childFrameShapes[1].attributes = EmptyMap
  /\ shape.childFrameShapes[2].childFrameShapes = <<[attributes |-> [fill |-> "red"], points |-> P0]>>

\* node(frameShp) has returned, or has thrown
Created == result = "created"
CreateThrew == result = "create threw"

\* the Frame Shape invariant of a frame shape handed to node, at every depth:
\* attributes a map, exactly one of points and childFrameShapes, and no 'd'
\* among the attributes of a leaf
RECURSIVE WellFormed(_)
WellFormed(f) ==
  /\ IsObject(f)
  /\ "attributes" \in DOMAIN f
  /\ IsObject(f.attributes)
  /\ ("points" \in DOMAIN f) /= ("childFrameShapes" \in DOMAIN f)
  /\ "points" \in DOMAIN f => "d" \notin DOMAIN f.attributes
  /\ "childFrameShapes" \in DOMAIN f =>
       \A i \in 1 .. Len(f.childFrameShapes) : WellFormed(f.childFrameShapes[i])

\* the nodes of the tree under n
RECURSIVE TreeNodes(_, _)
TreeNodes(d, n) ==
  {n} \cup UNION {TreeNodes(d, d[n].childNodes[i]) : i \in 1 .. Len(d[n].childNodes)}

\* the frame shapes of f, f included
RECURSIVE ShapeCount(_)
RECURSIVE ShapeCountFrom(_, _)
ShapeCountFrom(fs, i) ==
  IF i > Len(fs) THEN 0 ELSE ShapeCount(fs[i]) + ShapeCountFrom(fs, i + 1)
ShapeCount(f) ==
  1 + (IF IsGroupShape(f) THEN ShapeCountFrom(f.childFrameShapes, 1) ELSE 0)

\* the tree under n is structurally equal to f
RECURSIVE StructurallyEqual(_, _, _)
StructurallyEqual(d, n, f) ==
  IF IsGroupShape(f)
    THEN /\ d[n].nodeName = "g"
         /\ d[n].attributes = f.attributes
         /\ Len(d[n].childNodes) = Len(f.childFrameShapes)
         /\ \A i \in 1 .. Len(f.childFrameShapes) :
              StructurallyEqual(d, d[n].childNodes[i], f.childFrameShapes[i])
    ELSE /\ d[n].nodeName = "path"
         /\ d[n].childNodes = <<>>
         /\ hasAttribute(d, n, "d")
         /\ d[n].attributes["d"] = toPath(f.points)
         /\ Without(d[n].attributes, {"d"}) = f.attributes

(***************************************************************************)
(* C11: for every frame shape that satisfies the Frame Shape invariant,    *)
(* node returns a fresh tree structurally equal to it: 'g' for a group,    *)
(* with exactly the nodes of its childFrameShapes as children, in order;   *)
(* 'path' with d = toPath(points) for a leaf; every entry of attributes    *)
(* set on the new node.  The nodes the document had are left as they were. *)
(***************************************************************************)
C11_NodeStructure ==
  (result \in {"created", "create threw"} /\ WellFormed(callFs)) =>
    /\ Created
    /\ built \notin DOMAIN pre
    /\ StructurallyEqual(dom, built, callFs)
    /\ Cardinality(TreeNodes(dom, built)) = ShapeCount(callFs)
    /\ DOMAIN dom = DOMAIN pre \cup TreeNodes(dom, built)
    /\ \A n \in DOMAIN pre : dom[n] = pre[n]

\* a group of a leaf and of a child group, written
C11_Witness ==
  /\ Created
  /\ WellFormed(callFs)
  /\ callFs.attributes = [fill |-> "red"]
  /\ IsGroupShape(callFs)
  /\ Len(callFs.childFrameShapes) = 2
  /\ callFs.childFrameShapes[1] = [attributes |-> [fill |-> "red"], points |-> P0]
  /\ IsGroupShape(callFs.childFrameShapes[2])
  /\ Len(callFs.childFrameShapes[2].childFrameShapes) = 1
  /\ dom[dom[built].childNodes[1]].attributes = [d |-> S0, fill |-> "red"]

\* neither points nor childFrameShapes, or both, in an otherwise valid frame shape
BothOrNeither(f) ==
  /\ IsObject(f)
  /\ "attributes" \in DOMAIN f
  /\ IsObject(f.attributes)
  /\ ("points" \in DOMAIN f) = ("childFrameShapes" \in DOMAIN f)

(***************************************************************************)
(* C12: a frame shape that has both points and childFrameShapes is         *)
(* rejected as one that has neither: node, and updateNode on an accepted   *)
(* node, throw the TypeError of a malformed frame shape, and no node has   *)
(* been created or mutated.                                                *)
(***************************************************************************)
C12_BothRejected ==
  LET rejected ==
        /\ error = "frameShape must have either a points or childFrameShapes property"
        /\ dom = pre
  IN /\ (result \in {"created", "create threw"} /\ BothOrNeither(callFs))
          => (CreateThrew /\ rejected)
     /\ (result \in {"returned", "threw"} /\ BothOrNeither(callFs)
           /\ callEl /= NoNode /\ validNode(pre, callEl) = NoError)
          => (Threw /\ rejected)

(***************************************************************************)
(* C13: set side of the attribute differ: a key is in the set-collection   *)
(* if and only if it is in next and is either absent from current or has   *)
(* another value there; a key with equal values in both maps is never in   *)
(* it, and the set-collection is disjoint from the remove-collection.      *)
(***************************************************************************)
C13_SetSide ==
  result \in {"diffed", "inlined"} =>
    LET current == dom[callEl].attributes
        next == callFs.attributes
        update == DOMAIN changes[1].update
        remove == changes[1].remove
    IN /\ \A k \in DOMAIN current \cup DOMAIN next \cup update :
            k \in update <=>
              /\ k \in DOMAIN next
              /\ k \notin DOMAIN current \/ current[k] /= next[k]
       /\ update \cap remove = {}

\* the positions of the accepted-kind children among the children of el, and
\* the i-th accepted-kind child in document order
AcceptedIndexes(d, el) ==
  {j \in 1 .. Len(d[el].childNodes) : d[d[el].childNodes[j]].nodeName \in nodeTypes}

NthAccepted(d, el, i) ==
  d[el].childNodes[CHOOSE j \in AcceptedIndexes(d, el) :
                     Cardinality({m \in AcceptedIndexes(d, el) : m <= j}) = i]

\* the (node, frame shape) pairs of updateNode(el, f) in the order of the
\* calls, when the i-th child frame shape goes to the i-th accepted child
RECURSIVE VisitsInOrder(_, _, _)
RECURSIVE VisitsOfChildren(_, _, _, _)
VisitsOfChildren(d, el, fs, i) ==
  IF i > Len(fs) THEN <<>>
  ELSE VisitsInOrder(d, NthAccepted(d, el, i), fs[i]) \o VisitsOfChildren(d, el, fs, i + 1)
VisitsInOrder(d, el, f) ==
  <<[el |-> el, frameShp |-> f]>>
    \o (IF IsGroupShape(f) THEN VisitsOfChildren(d, el, f.childFrameShapes, 1) ELSE <<>>)

(***************************************************************************)
(* C14: the reader and the reconciler index the children of a group the    *)
(* same way: the i-th entry of frameShape(g).childFrameShapes is read from *)
(* the i-th accepted-kind child of g in document order, and updateNode     *)
(* pairs the i-th child frame shape with that child; text nodes and        *)
(* elements of other kinds are skipped and shift nothing.                  *)
(***************************************************************************)
C14_SameIndexing ==
  /\ (result = "read" /\ dom[callEl].nodeName = "g") =>
       /\ Len(shape.childFrameShapes) = Cardinality(AcceptedIndexes(dom, callEl))
       /\ \A i \in 1 .. Len(shape.childFrameShapes) :
            shape.childFrameShapes[i] = frameShape(dom, NthAccepted(dom, callEl, i)).shape
  /\ (result \in {"returned", "threw"} /\ pre[callEl].nodeName = "g") =>
       LET visits == VisitsInOrder(pre, callEl, callFs)
       IN /\ Returned
          /\ Len(changes) = Len(visits)
          /\ \A i \in 1 .. Len(visits) :
               changes[i] = changeOf(pre, visits[i].el, visits[i].frameShp)

\* <g> text <circle/> <div/> <path/> </g> read, then reconciled with what was
\* read: the path, fourth child, is paired with the second child frame shape
C14_Witness ==
  /\ Returned
  /\ callEl = "n0"
  /\ pre["n0"].childNodes = <<"t", "n1", "x", "n2">>
  /\ Len(callFs.childFrameShapes) = 2
  /\ callFs.childFrameShapes[2].attributes = [fill |-> "red"]
  /\ Len(changes) = 3
  /\ changes[3].el = "n2"
  /\ "fill" \in DOMAIN changes[3].update

(***************************************************************************)
(* C16: self-reconciliation is a no-op: updateNode(el, frameShape(el))     *)
(* returns and leaves every node of the tree with the attributes and the   *)
(* values it had.                                                          *)
(***************************************************************************)
C16_SelfNoOp ==
  result \in {"returned", "threw"} => (Returned /\ dom = pre)

\* the nodes under n, n excluded
Descendants(d, n) == TreeNodes(d, n) \ {n}

\* the entry of `changes` makes the apply loop call removeAttribute or setAttribute
Mutates(change) == change.remove /= {} \/ DOMAIN change.update /= {}

\* the frame shape the last call aligned node n with
FrameShapeOf(n) == (CHOOSE p \in LastPairs : p[1] = n)[2]

(***************************************************************************)
(* C15: in updateNode on a group, the attribute pass of the group comes    *)
(* after the recursion into its children: every removeAttribute and        *)
(* setAttribute on a descendant is applied before any on the group.        *)
(***************************************************************************)
C15_ChildrenBeforeGroup ==
  Returned =>
    \A i, j \in 1 .. Len(changes) :
      (/\ changes[j].el \in Descendants(pre, changes[i].el)
       /\ Mutates(changes[i])
       /\ Mutates(changes[j]))
      => j < i

(***************************************************************************)
(* C15 as amended: the removes and sets of a node are computed before the  *)
(* recursion into its children, every one of them against the tree as it   *)
(* was when the call started, and they are applied after the whole         *)
(* recursion in the order of the visits: those of a group before those of  *)
(* any of its descendants.                                                 *)
(***************************************************************************)
C15_GroupBeforeChildren ==
  Returned =>
    /\ \A i \in 1 .. Len(changes) :
         changes[i] = changeOf(pre, changes[i].el, FrameShapeOf(changes[i].el))
    /\ \A i, j \in 1 .. Len(changes) :
         changes[j].el \in Descendants(pre, changes[i].el) => i < j
    /\ dom = applyChanges(pre, changes, 1)

\* a call on the outer group that sets fill on it and d on the path of its
\* child group
C15_Witness ==
  /\ Returned
  /\ callEl = "n0"
  /\ Len(changes) = 4
  /\ changes[1].el = "n0"
  /\ "fill" \in DOMAIN changes[1].update
  /\ changes[3].el = "n2"
  /\ changes[4].el = "n3"
  /\ "d" \in DOMAIN changes[4].update

(***************************************************************************)
(* C17: group/leaf typing: whatever updateNode calls have been made, no    *)
(* 'g' node carries the leaf geometry attribute 'd'; a leaf frame shape    *)
(* paired with a group, at the top or at a child position, writes no 'd'   *)
(* onto it.                                                                *)
(***************************************************************************)
C17_GroupHasNoD ==
  \A n \in DOMAIN dom : dom[n].nodeName = "g" => ~hasAttribute(dom, n, "d")

====
